---- MODULE Spec2Model ----
(***************************************************************************)
(* A model of the bullet trainer's shape rule and backward pass of the     *)
(* block submatrix product, the HIP optimiser kernels' capacity guards,    *)
(* the batch gradient accumulator, the Ataxx147 feature iterator and the   *)
(* learning-rate schedulers.                                               *)
(***************************************************************************)
EXTENDS Integers, Sequences, FiniteSets, TLC

VARIABLES
    st_called, st_m, st_inputs, st_result,              \* submatrix_product::output_tensor
    bp_tensors, bp_inputs, bp_output, bp_last, bp_calls, \* submatrix_product::forward / backprop
    params, gradient, momentum, velocity, last, calls,  \* dense::optimiser adam / clip
    positions, order2, stream, skip_prop, pc, idx, grad, error, res1, res2, \* trainer::gradient
    it_done, it_prev_sq, it_item, it_out,               \* Ataxx147Iter
    sched, superbatch, lr                               \* trainer::schedule

shapeVars == <<st_called, st_m, st_inputs, st_result>>
bpVars    == <<bp_tensors, bp_inputs, bp_output, bp_last, bp_calls>>
optVars   == <<params, gradient, momentum, velocity, last, calls>>
gradVars  == <<positions, order2, stream, skip_prop, pc, idx, grad, error, res1, res2>>
ataxxVars == <<it_done, it_prev_sq, it_item, it_out>>
lrVars    == <<sched, superbatch, lr>>
vars      == <<shapeVars, bpVars, optVars, gradVars, ataxxVars, lrVars>>

(***************************************************************************)
(* Bounds of the model.                                                    *)
(***************************************************************************)
MaxM == 3
MaxRows == 6
MaxInputs == 3

(***************************************************************************)
(* tensor::Shape                                                           *)
(***************************************************************************)
ShapeNew(rows, cols) == [rows |-> rows, cols |-> cols]

ShapeTranspose(s) == [rows |-> s.cols, cols |-> s.rows]

\* Shape * Shape: the shape of the matrix product (inner dimensions must agree).
ShapeMul(a, b) == IF a.cols = b.rows THEN [rows |-> a.rows, cols |-> b.cols] ELSE [rows |-> -1, cols |-> -1]

ShapeSize(s) == s.rows * s.cols

ColChoices == {1, 2}

Shapes == [rows : 0..MaxRows, cols : ColChoices]

ShapeLists == UNION {[1..n -> Shapes] : n \in 0..MaxInputs}

(***************************************************************************)
(* submatrix_product::output_tensor                                        *)
(***************************************************************************)
Ok(shape) == [ok |-> TRUE, shape |-> <<shape.rows, shape.cols>>, err |-> ""]

Err(msg) == [ok |-> FALSE, shape |-> <<>>, err |-> msg]

\* faulty variant: the product is taken the wrong way round, inp * transpose(inp)
OutputTensorSwapped(m, inputs) ==
    IF Len(inputs) = 2 /\ inputs[1] = inputs[2] /\ inputs[1].cols = 1 /\ inputs[1].rows % m = 0
    THEN LET inp == ShapeNew(m, inputs[1].rows \div m)
             out == ShapeMul(inp, ShapeTranspose(inp))
         IN  Ok(ShapeNew(ShapeSize(out), 1))
    ELSE Err("rejected")

\* faulty variant: the column-vector test is missing
OutputTensorAnyCols(m, inputs) ==
    IF Len(inputs) = 2 /\ inputs[1] = inputs[2] /\ inputs[1].rows % m = 0
    THEN LET inp == ShapeNew(m, inputs[1].rows \div m)
             out == ShapeMul(ShapeTranspose(inp), inp)
         IN  Ok(ShapeNew(ShapeSize(out), 1))
    ELSE Err("rejected")

OutputTensor(m, inputs) ==
    IF Len(inputs) = 2
    THEN IF inputs[1] = inputs[2]
         THEN IF inputs[1].cols = 1
              THEN IF inputs[1].rows % m = 0
                   THEN LET inp == ShapeNew(m, inputs[1].rows \div m)
                            out == ShapeMul(ShapeTranspose(inp), inp)
                        IN  Ok(ShapeNew(ShapeSize(out), 1))
                   ELSE Err("must have dimension divisible by m")
              ELSE Err("Input must be a vector")
         ELSE Err("Inputs must have same shape")
    ELSE Err("Invalid number of inputs")

ShapeInit ==
    /\ st_called = FALSE
    /\ st_m = 1
    /\ st_inputs = <<>>
    /\ st_result = Err("not called")

\* The call of output_tensor(m, inputs) made when the operation is added to the graph;
\* the rule is applied once, at build time.
OutputTensorCall ==
    /\ ~st_called
    /\ \E m \in 1..MaxM, inputs \in ShapeLists :
          /\ st_m' = m
          /\ st_inputs' = inputs
          /\ st_result' = OutputTensor(m, inputs)
    /\ st_called' = TRUE
    /\ UNCHANGED <<bpVars, optVars, gradVars, ataxxVars, lrVars>>

(***************************************************************************)
(* submatrix_product::forward and submatrix_product::backprop              *)
(*                                                                         *)
(* `inputs` is a slice of exclusive references, one per slot; a sub-slice  *)
(* is a window [start, start + len) of slots.  The dense kernels are shown *)
(* for one-element tensors (m = 1, rows = 1), where the block product of   *)
(* a and b is a * b.                                                       *)
(***************************************************************************)
MaxBackprops == 2

TensorVals == {-1, 2}

UpstreamGrads == {-1, 1}

\* <[T]>::split_at_mut(mid) on a slice of `len` slots
SplitAtMut(len, mid) == <<[start |-> 0, len |-> mid], [start |-> mid, len |-> len - mid]>>

\* the slots a sub-slice gives access to
SliceSlots(s) == {k \in 0..(s.start + s.len - 1) : k >= s.start}

\* slice[i]: the slot behind index i of a sub-slice
SliceAt(s, i) == s.start + i

\* faulty variant: both gradients are taken through the first half
BackpropGradSlotsSameHalf(len) ==
    LET halves == SplitAtMut(len, 1)
    IN  [input1 |-> halves[1], input2 |-> halves[2],
         first |-> SliceAt(halves[1], 0), second |-> SliceAt(halves[1], 0)]

\* the two halves backprop takes and the slots whose gradients it hands to the kernel
BackpropGradSlots(len) ==
    LET halves == SplitAtMut(len, 1)
    IN  [input1 |-> halves[1], input2 |-> halves[2],
         first |-> SliceAt(halves[1], 0), second |-> SliceAt(halves[2], 0)]

\* DenseMatrix::submatrix_product on one-element tensors
SubmatrixProduct(a, b) == a * b

\* DenseMatrix::backprop_submatrix_product: accumulates into the gradient, when there is one
AccumulateGrad(t, other_values, out_grad) ==
    IF t.has_grad THEN [t EXCEPT !.gradients = @ + other_values * out_grad] ELSE t

BackpropInit ==
    /\ \E n \in 2..MaxInputs :
          /\ bp_inputs = [k \in 1..n |-> k]
          /\ bp_tensors \in [1..n -> [values : TensorVals, has_grad : BOOLEAN, gradients : {0}]]
    /\ bp_output \in [values : {0}, has_grad : {TRUE}, gradients : UpstreamGrads]
    /\ bp_last = [called |-> FALSE, input1 |-> {}, input2 |-> {}, first |-> 0, second |-> 0, written |-> <<>>]
    /\ bp_calls = 0

Forward ==
    /\ bp_output' = [bp_output EXCEPT !.values = SubmatrixProduct(bp_tensors[bp_inputs[1]].values, bp_tensors[bp_inputs[2]].values)]
    /\ UNCHANGED <<bp_tensors, bp_inputs, bp_last, bp_calls>>
    /\ UNCHANGED <<shapeVars, optVars, gradVars, ataxxVars, lrVars>>

Backprop ==
    /\ bp_calls < MaxBackprops
    /\ LET b  == BackpropGradSlots(Len(bp_inputs))
           t1 == bp_inputs[b.first + 1]
           t2 == bp_inputs[b.second + 1]
           g  == bp_output.gradients
           after1 == [bp_tensors EXCEPT ![t1] = AccumulateGrad(@, bp_tensors[t2].values, g)]
           after2 == [after1 EXCEPT ![t2] = AccumulateGrad(@, bp_tensors[t1].values, g)]
       IN  /\ bp_tensors' = after2
           /\ bp_last' = [called |-> TRUE, input1 |-> SliceSlots(b.input1), input2 |-> SliceSlots(b.input2),
                          first |-> b.first, second |-> b.second, written |-> <<t1, t2>>]
    /\ bp_calls' = bp_calls + 1
    /\ UNCHANGED <<bp_inputs, bp_output>>
    /\ UNCHANGED <<shapeVars, optVars, gradVars, ataxxVars, lrVars>>

(***************************************************************************)
(* bullet_hip_backend::dense::optimiser                                    *)
(*                                                                         *)
(* A Buffer<f32> is a sequence of numbers; its capacity, size(), is the    *)
(* length.  Numbers are integers in fixed-point units.                     *)
(***************************************************************************)
MaxCap == 2
MaxCalls == 2

IllegalAccess == "ExpectedIllegalAddressAccess"

Success == "Ok"

\* an out-of-range read of a raw pointer yields an arbitrary value (here 0)
At(buf, i) == IF i \in 1..Len(buf) THEN buf[i] ELSE 0

Isqrt(n) == CHOOSE r \in 0..(n + 1) : r * r <= n /\ (r + 1) * (r + 1) > n

AdamHypers == [beta1 : {9}, beta2 : {9}, gradient_factor : {1}, learning_rate : {4}, denom : BOOLEAN]

ClipRanges == {<<-1, 1>>, <<0, 0>>, <<1, -1>>}

\* ops::Adam: the device kernel, over the first `size` elements (betas in tenths)
AdamMomentum(h, m, g) == (h.beta1 * m + (10 - h.beta1) * h.gradient_factor * g) \div 10

AdamVelocity(h, v, g) == (h.beta2 * v + (10 - h.beta2) * (h.gradient_factor * g) * (h.gradient_factor * g)) \div 10

AdamStep(h, m, v) == IF h.denom THEN (h.learning_rate * m) \div (Isqrt(v) + 1) ELSE h.learning_rate * m

OpsAdam(size, h, p, m, v, g) ==
    LET m2(i) == AdamMomentum(h, At(m, i), At(g, i))
        v2(i) == AdamVelocity(h, At(v, i), At(g, i))
    IN  [params   |-> [i \in 1..Len(p) |-> IF i <= size THEN p[i] - AdamStep(h, m2(i), v2(i)) ELSE p[i]],
         momentum |-> [i \in 1..Len(m) |-> IF i <= size THEN m2(i) ELSE m[i]],
         velocity |-> [i \in 1..Len(v) |-> IF i <= size THEN v2(i) ELSE v[i]]]

\* ops::clip: the device kernel, over the first `size` elements
Clamp(x, min, max) == LET lo == IF x < min THEN min ELSE x IN IF lo > max THEN max ELSE lo

OpsClip(size, p, min, max) == [i \in 1..Len(p) |-> IF i <= size THEN Clamp(p[i], min, max) ELSE p[i]]

\* faulty variant: the velocity buffer's capacity is not checked
AdamNoVelocityCheck(size, h, p, g, m, v) ==
    IF size > Len(p) \/ size > Len(g) \/ size > Len(m)
    THEN [res |-> IllegalAccess, params |-> p, momentum |-> m, velocity |-> v]
    ELSE LET k == OpsAdam(size, h, p, m, v, g)
         IN  [res |-> Success, params |-> k.params, momentum |-> k.momentum, velocity |-> k.velocity]

\* optimiser::adam(size, params, gradient, momentum, velocity, ...)
Adam(size, h, p, g, m, v) ==
    IF size > Len(p) \/ size > Len(g) \/ size > Len(m) \/ size > Len(v)
    THEN [res |-> IllegalAccess, params |-> p, momentum |-> m, velocity |-> v]
    ELSE LET k == OpsAdam(size, h, p, m, v, g)
         IN  [res |-> Success, params |-> k.params, momentum |-> k.momentum, velocity |-> k.velocity]

\* faulty variant: the kernel is launched over one element too few
ClipShort(size, p, min, max) ==
    IF size > Len(p)
    THEN [res |-> IllegalAccess, params |-> p]
    ELSE [res |-> Success, params |-> OpsClip(size - 1, p, min, max)]

\* optimiser::clip(size, params, min, max)
Clip(size, p, min, max) ==
    IF size > Len(p)
    THEN [res |-> IllegalAccess, params |-> p]
    ELSE [res |-> Success, params |-> OpsClip(size, p, min, max)]

InitParam(i) == IF i % 2 = 1 THEN -3 ELSE 2

OptInit ==
    /\ \E np \in 1..MaxCap, ng \in 1..MaxCap, nm \in 1..MaxCap, nv \in 1..MaxCap :
          /\ params = [i \in 1..np |-> InitParam(i)]
          /\ gradient = [i \in 1..ng |-> 30]
          /\ momentum = [i \in 1..nm |-> 0]
          /\ velocity = [i \in 1..nv |-> 0]
    /\ last = [op |-> "none", size |-> 0, res |-> Success, min |-> 0, max |-> 0]
    /\ calls = 0

AdamCall ==
    /\ calls < MaxCalls
    /\ \E size \in 0..(MaxCap + 1), h \in AdamHypers :
          LET r == Adam(size, h, params, gradient, momentum, velocity)
          IN  /\ params' = r.params
              /\ momentum' = r.momentum
              /\ velocity' = r.velocity
              /\ last' = [op |-> "adam", size |-> size, res |-> r.res, min |-> 0, max |-> 0]
    /\ calls' = calls + 1
    /\ UNCHANGED gradient
    /\ UNCHANGED <<shapeVars, bpVars, gradVars, ataxxVars, lrVars>>

ClipCall ==
    /\ calls < MaxCalls
    /\ \E size \in 0..(MaxCap + 1), range \in ClipRanges :
          LET r == Clip(size, params, range[1], range[2])
          IN  /\ params' = r.params
              /\ last' = [op |-> "clip", size |-> size, res |-> r.res, min |-> range[1], max |-> range[2]]
    /\ calls' = calls + 1
    /\ UNCHANGED <<gradient, momentum, velocity>>
    /\ UNCHANGED <<shapeVars, bpVars, gradVars, ataxxVars, lrVars>>

(***************************************************************************)
(* trainer::gradient                                                       *)
(*                                                                         *)
(* gradients() is called twice, on a batch and on a reordering of it, with *)
(* the same network, blend, skip_prop and scale.  Numbers are exact        *)
(* integers (probabilities in tenths).  A position carries what the fixed  *)
(* network and blend make of it: its active features, the evaluation       *)
(* nnue.forward returns and the target pos.blended_result returns.         *)
(***************************************************************************)
MaxBatch == 3

Features == {1, 2}

PositionSet == {[features |-> {1}, eval |-> -1, target |-> 10], [features |-> {1, 2}, eval |-> 1, target |-> 0]}

\* what rand.rand(1.0) can return, and the skip_prop values, both in halves
Draws == {0, 1}

SkipProps == {0, 1, 2}

Batches == UNION {[1..n -> PositionSet] : n \in 0..MaxBatch}

Count(seq, p) == Cardinality({k \in 1..Len(seq) : seq[k] = p})

Reorderings(seq) == {t \in [1..Len(seq) -> PositionSet] : \A p \in PositionSet : Count(t, p) = Count(seq, p)}

\* NNUEParams::new()
ZeroGrad == [f \in Features |-> 0]

\* util::sigmoid(eval, 1.0), in tenths
Sigmoid(eval) == IF eval < 0 THEN 3 ELSE IF eval = 0 THEN 5 ELSE 7

\* nnue.backprop: adds the error to the weight of every active feature
NnueBackprop(err, pos, g) == [f \in Features |-> IF f \in pos.features THEN g[f] + err ELSE g[f]]

\* faulty variant: the contribution of a position replaces the gradient instead of adding to it
UpdateSingleGradOverwrite(pos, g, e) ==
    LET sigmoid == Sigmoid(pos.eval)
        err == (sigmoid - pos.target) * sigmoid * (10 - sigmoid)
    IN  [grad |-> [f \in Features |-> IF f \in pos.features THEN err ELSE g[f]],
         error |-> e + (sigmoid - pos.target) * (sigmoid - pos.target)]

UpdateSingleGrad(pos, g, e) ==
    LET sigmoid == Sigmoid(pos.eval)
        err == (sigmoid - pos.target) * sigmoid * (10 - sigmoid)
    IN  [grad |-> NnueBackprop(err, pos, g),
         error |-> e + (sigmoid - pos.target) * (sigmoid - pos.target)]

\* the batch the running call iterates over
CurrentBatch == IF pc = "run1" THEN positions ELSE order2

NoResult == [returned |-> FALSE, grad |-> ZeroGrad, error |-> 0]

GradInit ==
    /\ positions \in Batches
    /\ order2 \in Reorderings(positions)
    /\ stream \in [1..MaxBatch -> Draws]
    /\ skip_prop \in SkipProps
    /\ pc = "run1"
    /\ idx = 1
    /\ grad = ZeroGrad
    /\ error = 0
    /\ res1 = NoResult
    /\ res2 = NoResult

\* one iteration of the loop: the position is skipped
GradientsSkip ==
    /\ pc \in {"run1", "run2"}
    /\ idx <= Len(CurrentBatch)
    /\ stream[idx] < skip_prop
    /\ idx' = idx + 1
    /\ UNCHANGED <<positions, order2, stream, skip_prop, pc, grad, error, res1, res2>>
    /\ UNCHANGED <<shapeVars, bpVars, optVars, ataxxVars, lrVars>>

\* one iteration of the loop: the position's gradient is accumulated
GradientsUpdate ==
    /\ pc \in {"run1", "run2"}
    /\ idx <= Len(CurrentBatch)
    /\ ~(stream[idx] < skip_prop)
    /\ LET r == UpdateSingleGrad(CurrentBatch[idx], grad, error)
       IN  /\ grad' = r.grad
           /\ error' = r.error
    /\ idx' = idx + 1
    /\ UNCHANGED <<positions, order2, stream, skip_prop, pc, res1, res2>>
    /\ UNCHANGED <<shapeVars, bpVars, optVars, ataxxVars, lrVars>>

\* the first call returns its gradient; the second call starts with a fresh gradient and generator
GradientsReturnFirst ==
    /\ pc = "run1"
    /\ idx > Len(positions)
    /\ res1' = [returned |-> TRUE, grad |-> grad, error |-> error]
    /\ pc' = "run2"
    /\ idx' = 1
    /\ grad' = ZeroGrad
    /\ UNCHANGED <<positions, order2, stream, skip_prop, error, res2>>
    /\ UNCHANGED <<shapeVars, bpVars, optVars, ataxxVars, lrVars>>

\* the second call returns; its share of the error metric is what it added
GradientsReturnSecond ==
    /\ pc = "run2"
    /\ idx > Len(order2)
    /\ res2' = [returned |-> TRUE, grad |-> grad, error |-> error - res1.error]
    /\ pc' = "done"
    /\ UNCHANGED <<positions, order2, stream, skip_prop, idx, grad, error, res1>>
    /\ UNCHANGED <<shapeVars, bpVars, optVars, ataxxVars, lrVars>>

(***************************************************************************)
(* bullet_core::inputs::ataxx147                                           *)
(*                                                                         *)
(* The board iterator yields (piece, square) for the occupied squares,     *)
(* each square once (shown in increasing order), and then ends.            *)
(***************************************************************************)
BoardSize == 49

Neutral == 2

Pieces == 0..2

Squares == 0..(BoardSize - 1)

RECURSIVE BitXor(_, _)
\* a ^ b on unsigned integers
BitXor(a, b) == IF a = 0 /\ b = 0 THEN 0 ELSE ((a + b) % 2) + 2 * BitXor(a \div 2, b \div 2)

\* faulty variant: the opponent's index is the side-to-move index
FeatureIndicesNoToggle(piece, square) ==
    LET stm_idx == BoardSize * piece + square
    IN  <<stm_idx, stm_idx>>

\* faulty variant: the neutral marker is toggled like a piece
FeatureIndicesNoNeutral(piece, square) ==
    LET stm_idx == BoardSize * piece + square
    IN  <<stm_idx, BoardSize * BitXor(piece, 1) + square>>

\* the closure of Ataxx147Iter::next
FeatureIndices(piece, square) ==
    LET stm_idx == BoardSize * piece + square
        nstm_idx == IF piece = Neutral THEN stm_idx ELSE BoardSize * BitXor(piece, 1) + square
    IN  <<stm_idx, nstm_idx>>

\* Ataxx147::inputs
Inputs == 147

AtaxxInit ==
    /\ it_done = FALSE
    /\ it_prev_sq = -1
    /\ it_item = <<>>
    /\ it_out = <<>>

\* next() while the board iterator has an item: Some((stm_idx, nstm_idx))
IterNext ==
    /\ ~it_done
    /\ \E piece \in Pieces, square \in Squares :
          /\ square > it_prev_sq
          /\ it_item' = <<piece, square>>
          /\ it_out' = FeatureIndices(piece, square)
          /\ it_prev_sq' = square
    /\ UNCHANGED it_done
    /\ UNCHANGED <<shapeVars, bpVars, optVars, gradVars, lrVars>>

\* next() once the board iterator is exhausted: None
IterEnd ==
    /\ ~it_done
    /\ it_done' = TRUE
    /\ it_item' = <<>>
    /\ it_out' = <<>>
    /\ UNCHANGED it_prev_sq
    /\ UNCHANGED <<shapeVars, bpVars, optVars, gradVars, lrVars>>

(***************************************************************************)
(* trainer::schedule                                                       *)
(*                                                                         *)
(* A learning rate is kept in exact form: base * gamma^exp, times the      *)
(* cosine term of (phase, cycle) for CosineAnnealing (cycle = 0: no cosine *)
(* term).  With gamma # 1 and base # 0 two rates of one scheduler are      *)
(* equal exactly when their exact forms are.                               *)
(***************************************************************************)
MaxSuperbatch == 40
MaxStep == 2
MaxDrop == 3

Starts == {1, 3}

Gammas == {<<1, 2>>, <<9, 10>>}

Scheduler(kind, start, gamma, drop, step, warmup_batches, warmup_lr) ==
    [kind |-> kind, start |-> start, gamma |-> gamma, drop |-> drop, step |-> step,
     warmup_batches |-> warmup_batches, warmup_lr |-> warmup_lr]

Schedulers ==
    {Scheduler("Constant", v, <<1, 1>>, 0, 0, 0, 0) : v \in Starts}
    \cup {Scheduler("Drop", x[1], x[2], x[3], 0, 0, 0) : x \in Starts \X Gammas \X (0..MaxDrop)}
    \cup {Scheduler("Step", x[1], x[2], 0, x[3], 0, 0) : x \in Starts \X Gammas \X (1..MaxStep)}
    \cup {Scheduler("StepWithWarmup", x[1], x[2], 0, x[3], x[4], x[5]) :
             x \in Starts \X Gammas \X (1..MaxStep) \X (0..MaxDrop) \X Starts}
    \cup {Scheduler("CosineAnnealing", x[1], x[2], 0, x[3], 0, 0) : x \in Starts \X Gammas \X (1..MaxStep)}

Rate(base, gamma, exp) == [base |-> base, gamma |-> gamma, exp |-> exp, phase |-> 0, cycle |-> 0]

\* usize::saturating_sub
SaturatingSub(a, b) == IF a > b THEN a - b ELSE 0

\* faulty variant: the cycle length doubles one stage early
GetSdgStepEarly(s, step_size) ==
    IF s < step_size * 1 THEN step_size * 1
    ELSE IF s < step_size * 2 THEN step_size * 1
    ELSE IF s < step_size * 4 THEN step_size * 4
    ELSE IF s < step_size * 8 THEN step_size * 4
    ELSE step_size * 8

\* LrScheduler::get_sdg_step
GetSdgStep(s, step_size) ==
    IF s < step_size * 1 THEN step_size * 1
    ELSE IF s < step_size * 2 THEN step_size * 1
    ELSE IF s < step_size * 4 THEN step_size * 2
    ELSE IF s < step_size * 8 THEN step_size * 4
    ELSE step_size * 8

\* LrScheduler::lr
Lr(sc, s) ==
    CASE sc.kind = "Constant" -> Rate(sc.start, sc.gamma, 0)
      [] sc.kind = "Drop" -> IF s > sc.drop THEN Rate(sc.start, sc.gamma, 1) ELSE Rate(sc.start, sc.gamma, 0)
      [] sc.kind = "Step" -> Rate(sc.start, sc.gamma, SaturatingSub(s, 1) \div sc.step)
      [] sc.kind = "StepWithWarmup" ->
            IF s <= sc.warmup_batches
            THEN Rate(sc.warmup_lr, sc.gamma, SaturatingSub(s, 1) \div sc.step)
            ELSE Rate(sc.start, sc.gamma, SaturatingSub(s - sc.warmup_batches, 1) \div sc.step)
      [] sc.kind = "CosineAnnealing" ->
            LET sdg_step == GetSdgStep(s, sc.step)
            IN  [base |-> sc.start, gamma |-> sc.gamma, exp |-> s, phase |-> s % sdg_step, cycle |-> sdg_step]

\* TrainingSchedule::lr at the first superbatch of a run
LrInit ==
    /\ sched \in Schedulers
    /\ superbatch \in {0, 1}
    /\ lr = Lr(sched, superbatch)

\* the trainer moves to the next superbatch and asks the schedule for its rate
NextSuperbatch ==
    /\ superbatch < MaxSuperbatch
    /\ superbatch' = superbatch + 1
    /\ lr' = Lr(sched, superbatch + 1)
    /\ UNCHANGED sched
    /\ UNCHANGED <<shapeVars, bpVars, optVars, gradVars, ataxxVars>>

(***************************************************************************)
(* Specifications: one per component, the others at rest.                  *)
(***************************************************************************)
\* At rest: the state of a component that takes no part in a specification.
ShapeIdle == ShapeInit

BackpropIdle ==
    /\ bp_inputs = <<1, 2>>
    /\ bp_tensors = [k \in 1..2 |-> [values |-> 2, has_grad |-> TRUE, gradients |-> 0]]
    /\ bp_output = [values |-> 0, has_grad |-> TRUE, gradients |-> 1]
    /\ bp_last = [called |-> FALSE, input1 |-> {}, input2 |-> {}, first |-> 0, second |-> 0, written |-> <<>>]
    /\ bp_calls = 0

OptIdle ==
    /\ params = <<InitParam(1)>>
    /\ gradient = <<30>>
    /\ momentum = <<0>>
    /\ velocity = <<0>>
    /\ last = [op |-> "none", size |-> 0, res |-> Success, min |-> 0, max |-> 0]
    /\ calls = 0

GradIdle ==
    /\ positions = <<>>
    /\ order2 = <<>>
    /\ stream = [k \in 1..MaxBatch |-> 0]
    /\ skip_prop = 0
    /\ pc = "run1"
    /\ idx = 1
    /\ grad = ZeroGrad
    /\ error = 0
    /\ res1 = NoResult
    /\ res2 = NoResult

AtaxxIdle == AtaxxInit

LrIdle ==
    /\ sched = Scheduler("Constant", 1, <<1, 1>>, 0, 0, 0, 0)
    /\ superbatch = 0
    /\ lr = Lr(sched, 0)

NextShape == OutputTensorCall

InitShape == ShapeInit /\ BackpropIdle /\ OptIdle /\ GradIdle /\ AtaxxIdle /\ LrIdle

SpecShape == InitShape /\ [][NextShape]_vars

NextBackprop == Forward \/ Backprop

InitBackprop == ShapeIdle /\ BackpropInit /\ OptIdle /\ GradIdle /\ AtaxxIdle /\ LrIdle

SpecBackprop == InitBackprop /\ [][NextBackprop]_vars

NextOptimiser == AdamCall \/ ClipCall

InitOptimiser == ShapeIdle /\ BackpropIdle /\ OptInit /\ GradIdle /\ AtaxxIdle /\ LrIdle

SpecOptimiser == InitOptimiser /\ [][NextOptimiser]_vars

NextGradient == GradientsSkip \/ GradientsUpdate \/ GradientsReturnFirst \/ GradientsReturnSecond

InitGradient == ShapeIdle /\ BackpropIdle /\ OptIdle /\ GradInit /\ AtaxxIdle /\ LrIdle

SpecGradient == InitGradient /\ [][NextGradient]_vars

NextAtaxx == IterNext \/ IterEnd

InitAtaxx == ShapeIdle /\ BackpropIdle /\ OptIdle /\ GradIdle /\ AtaxxInit /\ LrIdle

SpecAtaxx == InitAtaxx /\ [][NextAtaxx]_vars

NextSchedule == NextSuperbatch

InitSchedule == ShapeIdle /\ BackpropIdle /\ OptIdle /\ GradIdle /\ AtaxxIdle /\ LrInit

SpecSchedule == InitSchedule /\ [][NextSchedule]_vars

(***************************************************************************)
(* Properties                                                              *)
(***************************************************************************)

\* C1: for m >= 1 and two equal column vectors of `rows` rows with rows % m = 0,
\* output_tensor returns Ok with the shape ((rows / m)^2, 1).
C1_ShapeRule ==
    (/\ st_called
     /\ Len(st_inputs) = 2
     /\ st_inputs[1] = st_inputs[2]
     /\ st_inputs[1].cols = 1
     /\ st_inputs[1].rows % st_m = 0)
    => LET n == st_inputs[1].rows \div st_m
       IN  st_result.ok /\ st_result.shape = <<n * n, 1>>

C1_Witness ==
    /\ st_called
    /\ st_m = 2
    /\ st_inputs = <<ShapeNew(6, 1), ShapeNew(6, 1)>>
    /\ st_result.ok
    /\ st_result.shape = <<9, 1>>

\* C2: output_tensor returns an error and no shape when the number of inputs is not 2,
\* the two shapes differ, the inputs are not column vectors, or rows is not divisible by m.
C2_Rejects ==
    (/\ st_called
     /\ \/ Len(st_inputs) # 2
        \/ st_inputs[1] # st_inputs[2]
        \/ st_inputs[1].cols # 1
        \/ st_inputs[1].rows % st_m # 0)
    => ~st_result.ok /\ st_result.shape = <<>> /\ st_result.err # ""

C2_Witness ==
    /\ st_called
    /\ st_m = 2
    /\ st_inputs = <<ShapeNew(4, 2), ShapeNew(4, 2)>>
    /\ ~st_result.ok
    /\ st_result.err = "Input must be a vector"

\* C3: adam and clip return the capacity error exactly when size exceeds the capacity of a
\* buffer they touch, and Ok otherwise; a call that returns the error changes no buffer.
C3_CapacityGuard ==
    /\ [](/\ last.op = "adam" =>
               IF last.size > Len(params) \/ last.size > Len(gradient)
                     \/ last.size > Len(momentum) \/ last.size > Len(velocity)
               THEN last.res = IllegalAccess
               ELSE last.res = Success
          /\ last.op = "clip" =>
               IF last.size > Len(params) THEN last.res = IllegalAccess ELSE last.res = Success)
    /\ [][(calls' = calls + 1 /\ last'.res = IllegalAccess)
             => UNCHANGED <<params, gradient, momentum, velocity>>]_vars

C3_Witness ==
    /\ last.op = "adam"
    /\ last.res = IllegalAccess
    /\ last.size <= Len(params)
    /\ last.size <= Len(gradient)
    /\ last.size <= Len(momentum)
    /\ last.size > Len(velocity)

\* C4 as stated: after a successful clip with min <= max every element of the parameter
\* buffer lies in [min, max], also when size is smaller than the capacity.
C4_ClipWholeBuffer ==
    (last.op = "clip" /\ last.res = Success /\ last.min <= last.max)
    => \A i \in 1..Len(params) : last.min <= params[i] /\ params[i] <= last.max

\* C4 as amended: after a successful clip with min <= max each of the first `size` elements
\* lies in [min, max], and the call leaves the elements from index `size` on as they were.
C4_ClipFirstSize ==
    /\ []((last.op = "clip" /\ last.res = Success /\ last.min <= last.max)
            => \A i \in 1..last.size : last.min <= params[i] /\ params[i] <= last.max)
    /\ [][(calls' = calls + 1 /\ last'.op = "clip")
             => \A i \in 1..Len(params) : i > last'.size => params'[i] = params[i]]_vars

C4_Witness ==
    /\ last.op = "clip"
    /\ last.res = Success
    /\ last.size = 1
    /\ last.min = -1
    /\ last.max = 1
    /\ params = <<-1, 2>>

\* C5 as stated: for every skip_prop, two orderings of one batch give the same gradient
\* and the same increase of the error metric.
C5_OrderIndependent ==
    pc = "done" => (res1.grad = res2.grad /\ res1.error = res2.error)

\* C5 as amended: with skip_prop = 0 (no position is skipped), two orderings of one batch
\* give the same gradient and the same increase of the error metric.
C5_OrderIndependentNoSkip ==
    (pc = "done" /\ skip_prop = 0) => (res1.grad = res2.grad /\ res1.error = res2.error)

C5_Witness ==
    /\ pc = "done"
    /\ skip_prop = 0
    /\ Len(positions) = 3
    /\ order2 # positions
    /\ res1.grad[1] # 0
    /\ res2.grad = res1.grad

\* C6: next returns stm_idx = 49 * piece + square; the two indices are equal for the neutral
\* marker 2 and differ for pieces 0 and 1, whose opponent index uses the toggled piece.
C6_Symmetry ==
    it_out # <<>> =>
        LET piece == it_item[1]
            square == it_item[2]
        IN  /\ it_out[1] = 49 * piece + square
            /\ piece = 2 => it_out[2] = it_out[1]
            /\ piece = 0 => (it_out[2] = 49 + square /\ it_out[2] # it_out[1])
            /\ piece = 1 => (it_out[2] = square /\ it_out[2] # it_out[1])

C6_Witness ==
    /\ it_item = <<2, 10>>
    /\ it_out = <<108, 108>>

\* C7: LrScheduler::Drop gives lr = start before superbatch `drop` and start * gamma from
\* superbatch `drop` on.
C7_DropAtDrop ==
    sched.kind = "Drop" =>
        lr = IF superbatch < sched.drop THEN Rate(sched.start, sched.gamma, 0) ELSE Rate(sched.start, sched.gamma, 1)

\* C8: backprop takes its two gradients through two disjoint halves of the input slice:
\* the first belongs to inputs[0], the second to inputs[1], and they are distinct tensors.
C8_DisjointHalves ==
    bp_last.called =>
        /\ bp_last.first = 0
        /\ bp_last.second = 1
        /\ bp_last.first \in bp_last.input1
        /\ bp_last.second \in bp_last.input2
        /\ bp_last.input1 \cap bp_last.input2 = {}
        /\ bp_last.written = <<bp_inputs[1], bp_inputs[2]>>
        /\ bp_last.written[1] # bp_last.written[2]

C8_Witness ==
    /\ bp_last.called
    /\ Len(bp_inputs) = 3
    /\ bp_tensors[1].gradients # 0
    /\ bp_tensors[2].gradients # 0
    /\ bp_tensors[3].gradients = 0

C10_InRange ==
    it_out # <<>> => \A k \in 1..2 : it_out[k] >= 0 /\ it_out[k] < Inputs

C10_Witness ==
    /\ it_item = <<2, 48>>
    /\ it_out[2] = 146

====
